---- MODULE Spec2Model ----
(***************************************************************************)
(* Model of challengeutils/utils.py: the submission-status annotation      *)
(* reconciliation (update_single_submission_status) and the ACL toggle     *)
(* (change_submission_annotation_acl).                                     *)
(*                                                                         *)
(* Representation.                                                         *)
(*  - A Python dict of annotations {key: value} is an insertion-ordered    *)
(*    mapping: a sequence of [key, value] records with distinct keys.      *)
(*  - An annotation value is [t |-> "str" | "int" | "float", v |-> n]: the *)
(*    runtime type of the Python value and the value itself.               *)
(*  - The wire format (submission status annotations) is a function from   *)
(*    the kind names present to sequences of [key, value, isPrivate]       *)
(*    records (scopeId / objectId map to a string).  Kinds are iterated    *)
(*    in KindOrder.                                                        *)
(*  - The status object is a record with a "status" field and, when it has *)
(*    one, an "annotations" field.  It is mutated in place by the calls.   *)
(*                                                                         *)
(* Scope.                                                                  *)
(*  - Values are str, int and float scalars, the three kinds the wire      *)
(*    format holds; annotation keys are never one of the wire format's own *)
(*    names (stringAnnos, ..., scopeId, objectId).                         *)
(*  - synapseclient's is_submission_status_annotations and                 *)
(*    to_submission_status_annotations are library code called by utils.py *)
(*    and are modelled by what they do on such values.                     *)
(*  - A status is fetched from the platform (InitStatuses: without         *)
(*    annotations, with empty annotations, with kinds stored as empty      *)
(*    lists) and then goes through up to MaxCalls calls; each call records *)
(*    its arguments and outcome in the variables op .. message.            *)
(*  - _check_date_range / _get_contributors (SpecDate) and the generator   *)
(*    evaluation_queue_query (SpecQuery) have their own specifications; a  *)
(*    time is a count of minutes and seconds, a remote record is its       *)
(*    position in the query's result.                                      *)
(***************************************************************************)
EXTENDS Integers, Sequences, FiniteSets, TLC

VARIABLES status,      \* the caller's submission status object
          op,          \* the last call: "none", "update" or "acl"
          pre,         \* the status object as it was before the last call
          add,         \* add_annotations of the last update, as it is after the call
          add_pre,     \* add_annotations of the last update, as it was passed
          to_public,   \* to_public of the last update
          force,       \* force_change_annotation_acl of the last update
          keys,        \* annotations (list of keys) of the last acl call
          is_private,  \* is_private of the last acl call
          raised,      \* "none", "ValueError" or "AttributeError"
          message,     \* the keys named by the ValueError's message, in order
          calls,       \* the number of calls made on the status object
          dates,       \* the last _check_date_range / _get_contributors call
          query        \* the evaluation_queue_query generator being consumed

vars == <<status, op, pre, add, add_pre, to_public, force, keys, is_private,
          raised, message, calls, dates, query>>

(* ------------------------------ bounds --------------------------------- *)

\* Records (typed payload) or items (flat payload) in one add_annotations.
MaxAdd == 2

\* Calls made on one status object.
MaxCalls == 2

\* Length of the key list passed to change_submission_annotation_acl.
MaxKeys == 2

\* Minutes and seconds of the date strings (0..MaxMinute, 0..MaxSecond).
MaxMinute == 2

MaxSecond == 1

\* Submissions in one evaluation's bundles.
MaxSubs == 2

\* Records of the remote query's result, the per-request limit, the start offset.
MaxRecords == 3

MaxLimit == 3

MaxOffset == 4

\* Annotation keys and values the calls draw from.
Keys == {"a", "b"}

Values == {[t |-> "str", v |-> 1], [t |-> "int", v |-> 1],
           [t |-> "float", v |-> 1]}

(* --------------------------- wire format ------------------------------- *)

AnnotationKinds == {"stringAnnos", "longAnnos", "doubleAnnos"}

StructuralKeys == {"scopeId", "objectId"}

KindOrder == <<"scopeId", "objectId", "stringAnnos", "longAnnos", "doubleAnnos">>

\* The empty dict.
EmptyDict == <<>>

(* ------------------------- Python dict helpers ------------------------- *)

DictKeys(d) == {d[i].key : i \in DOMAIN d}

DictGet(d, k) == d[CHOOSE i \in DOMAIN d : d[i].key = k].value

\* d[k] = v: an existing key keeps its position, a new key goes last.
DictSet(d, k, v) ==
    IF k \in DictKeys(d)
    THEN [i \in DOMAIN d |-> IF d[i].key = k THEN [key |-> k, value |-> v] ELSE d[i]]
    ELSE Append(d, [key |-> k, value |-> v])

RECURSIVE DictFromItems(_, _)
\* {item.key: item.value for item in items}, started from d.
DictFromItems(d, items) ==
    IF items = <<>> THEN d
    ELSE DictFromItems(DictSet(d, Head(items).key, Head(items).value), Tail(items))

\* The slip of keeping the value d already holds for a key of e.
DictUpdateKeepsExisting(d, e) ==
    DictFromItems(d, SelectSeq(e, LAMBDA it : it.key \notin DictKeys(d)))

\* d.update(e)
DictUpdate(d, e) == DictFromItems(d, e)

RECURSIVE Concat(_, _, _)
\* The records of every kind of `annotations` named in order[i..], in order.
Concat(annotations, order, i) ==
    IF i > Len(order) THEN <<>>
    ELSE (IF order[i] \in DOMAIN annotations /\ order[i] \notin StructuralKeys
          THEN annotations[order[i]] ELSE <<>>)
         \o Concat(annotations, order, i + 1)

(* --------------------- synapseclient.annotations ----------------------- *)

\* is_submission_status_annotations, on the key set of the mapping: every
\* key is one of the wire format's names (so the empty mapping qualifies).
is_submission_status_annotations(keyset) ==
    keyset \subseteq (AnnotationKinds \cup StructuralKeys)

KindOf(value) ==
    CASE value.t = "str" -> "stringAnnos"
      [] value.t = "int" -> "longAnnos"
      [] value.t = "float" -> "doubleAnnos"

\* to_submission_status_annotations(d, is_private): a mapping already in
\* the wire format is returned as it is; otherwise each item is appended to
\* the list of its value's kind, a list created when its first item comes.
to_submission_status_annotations(d, priv) ==
    IF is_submission_status_annotations(DictKeys(d))
    THEN [k \in DictKeys(d) |-> DictGet(d, k)]
    ELSE LET recs == [i \in DOMAIN d |->
                        [key |-> d[i].key, value |-> d[i].value, isPrivate |-> priv]]
         IN [k \in {KindOf(d[i].value) : i \in DOMAIN d} |->
                SelectSeq(recs, LAMBDA r : KindOf(r.value) = k)]

(* ------------------------------ utils.py ------------------------------- *)

\* _switch_annotation_permission: [raised, keys, existing].
switch_annotation_permission(add_annotations, existing_annotations, force_acl) ==
    LET check_key == {i \in DOMAIN existing_annotations :
                         existing_annotations[i].key \in DictKeys(add_annotations)}
    IN IF Cardinality(check_key) = 0
       THEN [raised |-> FALSE, keys |-> <<>>, existing |-> existing_annotations]
       ELSE IF Cardinality(check_key) > 0 /\ force_acl
       THEN [raised |-> FALSE, keys |-> <<>>,
             existing |-> SelectSeq(existing_annotations,
                             LAMBDA it : it.key \notin DictKeys(add_annotations))]
       ELSE LET change == SelectSeq(existing_annotations,
                             LAMBDA it : it.key \in DictKeys(add_annotations))
            IN [raised |-> TRUE,
                keys |-> [i \in DOMAIN change |-> change[i].key],
                existing |-> existing_annotations]

\* The slip of leaving out the isPrivate test of the comprehension.
submission_annotations_to_dict_any_acl(annotations, priv) ==
    DictFromItems(EmptyDict, Concat(annotations, KindOrder, 1))

\* _submission_annotations_to_dict
submission_annotations_to_dict(annotations, priv) ==
    DictFromItems(EmptyDict,
                  SelectSeq(Concat(annotations, KindOrder, 1),
                            LAMBDA r : r.isPrivate = priv))

\* status.get("annotations", dict())
existing_annots(st) ==
    IF "annotations" \in DOMAIN st THEN st.annotations ELSE EmptyDict

\* The key set of add_annotations, whichever its shape.
AddKeySet(a) == IF a.fmt = "flat" THEN DictKeys(a.items) ELSE DOMAIN a.annos

\* The slip of adding a flat mapping as private whatever to_public says.
private_added_annotations_always(a, tp) ==
    IF ~is_submission_status_annotations(AddKeySet(a))
    THEN a.items
    ELSE submission_annotations_to_dict(
             IF a.fmt = "flat" THEN EmptyDict ELSE a.annos, TRUE)

\* private_added_annotations
private_added_annotations(a, tp) ==
    IF ~is_submission_status_annotations(AddKeySet(a))
    THEN (IF tp THEN EmptyDict ELSE a.items)
    ELSE submission_annotations_to_dict(
             IF a.fmt = "flat" THEN EmptyDict ELSE a.annos, TRUE)

\* public_added_annotations
public_added_annotations(a, tp) ==
    IF ~is_submission_status_annotations(AddKeySet(a))
    THEN (IF tp THEN a.items ELSE EmptyDict)
    ELSE submission_annotations_to_dict(
             IF a.fmt = "flat" THEN EmptyDict ELSE a.annos, FALSE)

\* The slip of never popping a kind that neither side holds.
combined_annotations_keeps_empty(priv, pub) ==
    [k \in AnnotationKinds |->
        (IF k \in DOMAIN priv THEN priv[k] ELSE <<>>)
        \o (IF k \in DOMAIN pub THEN pub[k] ELSE <<>>)]

\* The loop that combines priv and pub into one annotations mapping.
combined_annotations(priv, pub) ==
    [k \in {t \in AnnotationKinds : t \in DOMAIN priv \/ t \in DOMAIN pub} |->
        (IF k \in DOMAIN priv THEN priv[k] ELSE <<>>)
        \o (IF k \in DOMAIN pub THEN pub[k] ELSE <<>>)]

\* status['annotations'] = annotations
SetAnnotations(st, annotations) ==
    [f \in (DOMAIN st) \cup {"annotations"} |->
        IF f = "annotations" THEN annotations ELSE st[f]]

\* The slip of storing the empty combined mapping into the status before
\* the permissions are checked.
raise_conflict_after_write(st, a, change_keys) ==
    [status |-> SetAnnotations(st, [k \in AnnotationKinds |-> <<>>]), add |-> a,
     raised |-> "ValueError", message |-> change_keys]

\* The ValueError of _switch_annotation_permission leaves the call: nothing
\* was stored into the status or into add_annotations before it.
raise_conflict(st, a, change_keys) ==
    [status |-> st, add |-> a, raised |-> "ValueError", message |-> change_keys]

\* update_single_submission_status: [status, add, raised, message], the
\* status and add_annotations objects as the call leaves them.
update_single_submission_status(st, a, tp, force_acl) ==
    LET private_annotations == submission_annotations_to_dict(existing_annots(st), TRUE)
        public_annotations == submission_annotations_to_dict(existing_annots(st), FALSE)
        private_added == private_added_annotations(a, tp)
        public_added == public_added_annotations(a, tp)
        sw_private == switch_annotation_permission(public_added, private_annotations,
                                                   force_acl)
        sw_public == switch_annotation_permission(private_added, public_annotations,
                                                  force_acl)
        priv == to_submission_status_annotations(
                    DictUpdate(sw_private.existing, private_added), TRUE)
        pub == to_submission_status_annotations(
                    DictUpdate(sw_public.existing, public_added), FALSE)
    IN IF sw_private.raised
       THEN raise_conflict(st, a, sw_private.keys)
       ELSE IF sw_public.raised
       THEN raise_conflict(st, a, sw_public.keys)
       ELSE [status |-> SetAnnotations(st, combined_annotations(priv, pub)),
             add |-> a, raised |-> "none", message |-> <<>>]

\* The index of the first record of list whose key is k (check[0]), 0 if none.
FirstWithKey(list, k) ==
    IF \E i \in DOMAIN list : list[i].key = k
    THEN CHOOSE i \in DOMAIN list :
             /\ list[i].key = k
             /\ \A j \in DOMAIN list : list[j].key = k => i <= j
    ELSE 0

\* The slip of a filter that does not compare the key: the first record of
\* the list is taken.
change_annotation_acl_any_key(annotations, k, annotation_type, priv) ==
    IF annotation_type \in DOMAIN annotations /\ annotations[annotation_type] # <<>>
    THEN [annotations EXCEPT ![annotation_type][1].isPrivate = priv]
    ELSE annotations

\* _change_annotation_acl
change_annotation_acl(annotations, k, annotation_type, priv) ==
    IF annotation_type \in DOMAIN annotations
    THEN LET check == FirstWithKey(annotations[annotation_type], k)
         IN IF check # 0
            THEN [annotations EXCEPT ![annotation_type][check].isPrivate = priv]
            ELSE annotations
    ELSE annotations

RECURSIVE change_acl_loop(_, _, _)
\* The loop over the keys of change_submission_annotation_acl.
change_acl_loop(annotations, ks, priv) ==
    IF ks = <<>> THEN annotations
    ELSE change_acl_loop(
             change_annotation_acl(
                 change_annotation_acl(
                     change_annotation_acl(annotations, Head(ks), "stringAnnos", priv),
                     Head(ks), "doubleAnnos", priv),
                 Head(ks), "longAnnos", priv),
             Tail(ks), priv)

\* change_submission_annotation_acl: [status, raised]; reading
\* status.annotations of a status that has none raises AttributeError.
change_submission_annotation_acl(st, ks, priv) ==
    IF "annotations" \notin DOMAIN st
    THEN [status |-> st, raised |-> "AttributeError"]
    ELSE [status |-> SetAnnotations(st, change_acl_loop(st.annotations, ks, priv)),
          raised |-> "none"]

(* ------------------------------ inputs --------------------------------- *)

SeqsUpTo(S, n) == UNION {[1..m -> S] : m \in 0..n}

AnnotationRecords == [key : Keys, value : Values, isPrivate : BOOLEAN]

\* A wire-format mapping holding exactly the records of s, each in the list
\* of its value's kind.
Typed(s) ==
    [k \in {KindOf(s[i].value) : i \in DOMAIN s} |->
        SelectSeq(s, LAMBDA r : KindOf(r.value) = k)]

FlatItems == {s \in SeqsUpTo([key : Keys, value : Values], MaxAdd) :
                 \A i, j \in DOMAIN s : i # j => s[i].key # s[j].key}

NoAdd == [fmt |-> "flat", items |-> EmptyDict, annos |-> EmptyDict]

AddPayloads ==
    {[fmt |-> "flat", items |-> s, annos |-> EmptyDict] : s \in FlatItems}
    \cup {[fmt |-> "typed", items |-> EmptyDict, annos |-> Typed(s)] :
             s \in SeqsUpTo(AnnotationRecords, MaxAdd)}

InitStatuses ==
    { [status |-> "RECEIVED"],
      [status |-> "RECEIVED", annotations |-> EmptyDict],
      [status |-> "SCORED",
       annotations |-> [scopeId |-> "9", objectId |-> "7",
                        stringAnnos |-> <<>>, longAnnos |-> <<>>,
                        doubleAnnos |-> <<>>]],
      [status |-> "SCORED",
       annotations |-> [stringAnnos |-> <<[key |-> "a", value |-> [t |-> "str", v |-> 1],
                                          isPrivate |-> TRUE]>>,
                        longAnnos |-> <<[key |-> "b", value |-> [t |-> "int", v |-> 1],
                                        isPrivate |-> FALSE]>>,
                        doubleAnnos |-> <<>>]] }

(* ------------------------- date range filter --------------------------- *)

\* createdOn strings ('%Y-%m-%dT%H:%M:%S.%fZ') and start / end strings
\* ('%Y-%m-%d %H:%M', or None: given = FALSE).
DateStrs == [minute : 0..MaxMinute, second : 0..MaxSecond]

DateBounds == {[given |-> FALSE, minute |-> 0]}
              \cup [given : {TRUE}, minute : 0..MaxMinute]

\* datetime.datetime.strptime(date_str, '%Y-%m-%dT%H:%M:%S.%fZ'), in seconds.
strptime_date(date_str) == date_str.minute * 60 + date_str.second

\* datetime.datetime.strptime(start_datetime, '%Y-%m-%d %H:%M'), in seconds.
strptime_bound(bound) == bound.minute * 60

\* _check_date_range: result is assigned by the start test and then again
\* by the end test.
check_date_range(date_str, start_datetime, end_datetime) ==
    LET date_obj == strptime_date(date_str)
        after_start == IF start_datetime.given
                       THEN date_obj >= strptime_bound(start_datetime)
                       ELSE TRUE
        after_end == IF end_datetime.given
                     THEN date_obj <= strptime_bound(end_datetime)
                     ELSE after_start
    IN IF start_datetime.given \/ end_datetime.given THEN after_end ELSE TRUE

PrincipalIds == {1, 2}

\* A submission of syn.getSubmissionBundles: createdOn and contributors.
Submissions == [createdOn : DateStrs, contributors : (SUBSET PrincipalIds) \ {{}}]

RECURSIVE get_contributors_loop(_, _, _, _)
\* The loop of _get_contributors over the bundles.
get_contributors_loop(contributors, bundles, start_datetime, end_datetime) ==
    IF bundles = <<>> THEN contributors
    ELSE get_contributors_loop(
             IF check_date_range(Head(bundles).createdOn, start_datetime, end_datetime)
             THEN contributors \cup Head(bundles).contributors
             ELSE contributors,
             Tail(bundles), start_datetime, end_datetime)

\* _get_contributors
get_contributors(bundles, start_datetime, end_datetime) ==
    get_contributors_loop({}, bundles, start_datetime, end_datetime)

NoDates == [op |-> "none", date |-> [minute |-> 0, second |-> 0],
            start |-> [given |-> FALSE, minute |-> 0],
            end |-> [given |-> FALSE, minute |-> 0],
            bundles |-> <<>>, result |-> TRUE, contributors |-> {}]

(* ------------------------ evaluation queue query ----------------------- *)

\* sys.maxsize: only its being positive is read (the largest integer TLC holds).
sys_maxsize == 2147483647

Min(a, b) == IF a < b THEN a ELSE b

\* syn.restGET of "<uri> limit <limit> offset <offset>" on a result of n
\* records: the rows at positions offset .. offset + limit - 1 that exist.
rest_get(n, limit, offset) ==
    [i \in 1..Min(limit, n - offset) |-> offset + i - 1]

\* The slip of advancing offset by two for one yielded record.
next_offset_twice(offset) == offset + 2

\* offset += 1
next_offset(offset) == offset + 1

NoQuery == [pc |-> "idle", n |-> 0, limit |-> 1, start |-> 0, offset |-> 0,
            prev_num_results |-> sys_maxsize, page |-> <<>>, yielded |-> <<>>,
            requests |-> <<>>]

(* -------------------------- state machine ------------------------------ *)

Init ==
    /\ status \in InitStatuses
    /\ pre = status
    /\ op = "none"
    /\ add = NoAdd
    /\ add_pre = NoAdd
    /\ to_public = FALSE
    /\ force = FALSE
    /\ keys = <<>>
    /\ is_private = FALSE
    /\ raised = "none"
    /\ message = <<>>
    /\ calls = 0
    /\ dates = NoDates
    /\ query = NoQuery

UpdateSingleSubmissionStatus ==
    /\ calls < MaxCalls
    /\ calls' = calls + 1
    /\ \E a \in AddPayloads, tp \in BOOLEAN, f \in BOOLEAN :
        \E r \in {update_single_submission_status(status, a, tp, f)} :
           /\ status' = r.status
           /\ pre' = status
           /\ op' = "update"
           /\ add' = r.add
           /\ add_pre' = a
           /\ to_public' = tp
           /\ force' = f
           /\ raised' = r.raised
           /\ message' = r.message
           /\ UNCHANGED <<keys, is_private, dates, query>>

ChangeSubmissionAnnotationAcl ==
    /\ calls < MaxCalls
    /\ calls' = calls + 1
    /\ \E ks \in SeqsUpTo(Keys, MaxKeys), p \in BOOLEAN :
        \E r \in {change_submission_annotation_acl(status, ks, p)} :
           /\ status' = r.status
           /\ pre' = status
           /\ op' = "acl"
           /\ keys' = ks
           /\ is_private' = p
           /\ raised' = r.raised
           /\ message' = <<>>
           /\ add' = NoAdd
           /\ add_pre' = NoAdd
           /\ to_public' = FALSE
           /\ force' = FALSE
           /\ UNCHANGED <<dates, query>>

Next == UpdateSingleSubmissionStatus \/ ChangeSubmissionAnnotationAcl

Spec == Init /\ [][Next]_vars

\* The variables of the annotation calls, which the specifications below
\* leave alone.
annotation_vars == <<status, op, pre, add, add_pre, to_public, force, keys,
                     is_private, raised, message, calls>>

NoAnnotationCall ==
    /\ status = [status |-> "RECEIVED"]
    /\ pre = status
    /\ op = "none"
    /\ add = NoAdd
    /\ add_pre = NoAdd
    /\ to_public = FALSE
    /\ force = FALSE
    /\ keys = <<>>
    /\ is_private = FALSE
    /\ raised = "none"
    /\ message = <<>>
    /\ calls = 0

InitDate == NoAnnotationCall /\ dates = NoDates /\ query = NoQuery

\* One call is made in a behaviour: the functions keep no state.
CheckDateRange ==
    /\ dates.op = "none"
    /\ \E d \in DateStrs, s \in DateBounds, e \in DateBounds :
          dates' = [op |-> "check", date |-> d, start |-> s, end |-> e,
                    bundles |-> <<>>, result |-> check_date_range(d, s, e),
                    contributors |-> {}]
    /\ UNCHANGED <<annotation_vars, query>>

GetContributors ==
    /\ dates.op = "none"
    /\ \E b \in SeqsUpTo(Submissions, MaxSubs), s \in DateBounds, e \in DateBounds :
          dates' = [op |-> "contributors", date |-> [minute |-> 0, second |-> 0],
                    start |-> s, end |-> e, bundles |-> b, result |-> TRUE,
                    contributors |-> get_contributors(b, s, e)]
    /\ UNCHANGED <<annotation_vars, query>>

NextDate == CheckDateRange \/ GetContributors

SpecDate == InitDate /\ [][NextDate]_vars

\* evaluation_queue_query(syn, uri, limit, offset) is called on a remote
\* result of n records; the generator is then consumed step by step.
InitQuery ==
    /\ NoAnnotationCall
    /\ dates = NoDates
    /\ \E n \in 0..MaxRecords, limit \in 1..MaxLimit, offset \in 0..MaxOffset :
          query = [pc |-> "loop", n |-> n, limit |-> limit, start |-> offset,
                   offset |-> offset, prev_num_results |-> sys_maxsize,
                   page |-> <<>>, yielded |-> <<>>, requests |-> <<>>]

\* while prev_num_results > 0: one request, results and prev_num_results.
QueryRequest ==
    /\ query.pc = "loop" /\ query.page = <<>> /\ query.prev_num_results > 0
    /\ \E results \in {rest_get(query.n, query.limit, query.offset)} :
          query' = [query EXCEPT
                      !.page = results,
                      !.prev_num_results = Len(results),
                      !.requests = Append(@, [offset |-> query.offset,
                                              yielded |-> Len(query.yielded),
                                              rows |-> Len(results)])]
    /\ UNCHANGED <<annotation_vars, dates>>

\* for result in results: offset += 1; yield result
QueryYield ==
    /\ query.pc = "loop" /\ query.page # <<>>
    /\ query' = [query EXCEPT !.offset = next_offset(@),
                              !.yielded = Append(@, Head(query.page)),
                              !.page = Tail(@)]
    /\ UNCHANGED <<annotation_vars, dates>>

\* The while test fails: the generator is exhausted.
QueryStop ==
    /\ query.pc = "loop" /\ query.page = <<>> /\ query.prev_num_results <= 0
    /\ query' = [query EXCEPT !.pc = "done"]
    /\ UNCHANGED <<annotation_vars, dates>>

NextQuery == QueryRequest \/ QueryYield \/ QueryStop

\* The consumer reads the generator to its end: a step that can be taken is taken.
SpecQuery == InitQuery /\ [][NextQuery]_vars /\ WF_vars(NextQuery)

(* ------------------- vocabulary of the properties ---------------------- *)

\* The annotations of a status object (none: the empty mapping).
Annos(st) == IF "annotations" \in DOMAIN st THEN st.annotations ELSE EmptyDict

\* The annotation kinds present in a wire-format mapping.
KindsIn(annotations) == (DOMAIN annotations) \cap AnnotationKinds

\* Every {key, value, isPrivate} record of a wire-format mapping.
RecordsIn(annotations) ==
    UNION {{annotations[k][i] : i \in DOMAIN annotations[k]} : k \in KindsIn(annotations)}

\* The records a call adds, read off add_annotations as it was passed: a
\* flat mapping read with the visibility to_public asks for.
AddedRecords(a, tp) ==
    IF a.fmt = "flat"
    THEN {[key |-> a.items[i].key, value |-> a.items[i].value, isPrivate |-> ~tp] :
             i \in DOMAIN a.items}
    ELSE RecordsIn(a.annos)

KeysOf(records, priv) == {r.key : r \in {x \in records : x.isPrivate = priv}}

\* The <<key, value>> pairs of one visibility domain.
PairsOf(records, priv) ==
    {<<r.key, r.value>> : r \in {x \in records : x.isPrivate = priv}}

\* No key has two values.
Functional(pairs) == \A p, q \in pairs : p[1] = q[1] => p[2] = q[2]

\* Keys added in one domain that exist in the opposite domain.
Colliding(existing, added) ==
    (KeysOf(added, FALSE) \cap KeysOf(existing, TRUE))
    \cup (KeysOf(added, TRUE) \cap KeysOf(existing, FALSE))

Updated == op = "update" /\ raised = "none"

Range(s) == {s[i] : i \in DOMAIN s}

(* ------------------------------ claims --------------------------------- *)

\* C1: after a successful update_single_submission_status no annotation key
\* occurs both in a private and in a public record of status.annotations.
C1_Exclusive ==
    Updated =>
        KeysOf(RecordsIn(Annos(status)), TRUE)
            \cap KeysOf(RecordsIn(Annos(status)), FALSE) = {}

\* C2: without force, an update that adds a key existing in the opposite
\* domain raises, and the message names exactly the colliding keys of both
\* directions.
C2_AllCollidingKeysNamed ==
    (op = "update" /\ ~force
        /\ Colliding(RecordsIn(Annos(pre)), AddedRecords(add_pre, to_public)) # {})
    => (/\ raised = "ValueError"
        /\ Range(message)
             = Colliding(RecordsIn(Annos(pre)), AddedRecords(add_pre, to_public)))

\* C3: when update_single_submission_status raises the conflict error, the
\* status object and the add_annotations mapping are as they were passed.
C3_ConflictLeavesInputs ==
    (op = "update" /\ raised = "ValueError") => (status = pre /\ add = add_pre)

C3_Witness ==
    /\ op = "update" /\ raised = "ValueError"
    /\ RecordsIn(Annos(pre)) # {}
    /\ AddedRecords(add_pre, to_public) # {}

\* C4: with force_change_annotation_acl the update never raises the
\* conflict error, and a key added in one domain that existed in the
\* opposite domain ends up only in the domain it was added in, with the
\* added value.
C4_ForceMovesKey ==
    (op = "update" /\ force) =>
        /\ raised # "ValueError"
        /\ \A d \in BOOLEAN :
             \A k \in KeysOf(AddedRecords(add_pre, to_public), d)
                        \cap KeysOf(RecordsIn(Annos(pre)), ~d) :
                /\ k \in KeysOf(RecordsIn(Annos(status)), d)
                /\ k \notin KeysOf(RecordsIn(Annos(status)), ~d)
                /\ \A r \in RecordsIn(Annos(status)) :
                     r.key = k =>
                        <<k, r.value>> \in PairsOf(AddedRecords(add_pre, to_public), d)

\* C5: a flat add_annotations is added to the private domain when to_public
\* is false and to the public domain when it is true, and nothing of it is
\* added to the other domain.
C5_FlatGoesToOneDomain ==
    (Updated /\ add_pre.fmt = "flat") =>
        /\ \A i \in DOMAIN add_pre.items :
             /\ [key |-> add_pre.items[i].key, value |-> add_pre.items[i].value,
                 isPrivate |-> ~to_public] \in RecordsIn(Annos(status))
             /\ add_pre.items[i].key \notin KeysOf(RecordsIn(Annos(status)), to_public)
        /\ {r \in RecordsIn(Annos(status)) : r.isPrivate = to_public}
              \subseteq RecordsIn(Annos(pre))

C5_Witness ==
    /\ Updated /\ add_pre.fmt = "flat" /\ Len(add_pre.items) = 2
    /\ to_public
    /\ KeysOf(RecordsIn(Annos(pre)), TRUE) # {}
    /\ KeysOf(RecordsIn(Annos(pre)), FALSE) # {}

\* C6: when no added key exists in the opposite domain, the update returns
\* and each domain holds exactly its existing map overwritten by its added
\* map.
C6_MergeIsUnion ==
    (/\ op = "update"
     /\ Colliding(RecordsIn(Annos(pre)), AddedRecords(add_pre, to_public)) = {}
     /\ \A d \in BOOLEAN :
          /\ Functional(PairsOf(RecordsIn(Annos(pre)), d))
          /\ Functional(PairsOf(AddedRecords(add_pre, to_public), d)))
    => (/\ raised = "none"
        /\ \A d \in BOOLEAN :
             PairsOf(RecordsIn(Annos(status)), d)
               = PairsOf(AddedRecords(add_pre, to_public), d)
                 \cup {p \in PairsOf(RecordsIn(Annos(pre)), d) :
                          p[1] \notin KeysOf(AddedRecords(add_pre, to_public), d)})

\* An existing key is re-supplied in its own domain with another value,
\* beside an existing key that is not re-supplied.
C6_Witness ==
    /\ Updated
    /\ Colliding(RecordsIn(Annos(pre)), AddedRecords(add_pre, to_public)) = {}
    /\ \E r \in RecordsIn(Annos(pre)), x \in AddedRecords(add_pre, to_public) :
          r.key = x.key /\ r.isPrivate = x.isPrivate /\ r.value # x.value
    /\ \E r \in RecordsIn(Annos(pre)) :
          r.key \notin KeysOf(AddedRecords(add_pre, to_public), TRUE)
                         \cup KeysOf(AddedRecords(add_pre, to_public), FALSE)

\* The annotations an update surely merges: the added records whose key is
\* added once in their domain, and the existing records whose key is not
\* added and is held once in their domain.
SurelyMerged ==
    {x \in AddedRecords(add_pre, to_public) :
        \A y \in AddedRecords(add_pre, to_public) :
            (y.key = x.key /\ y.isPrivate = x.isPrivate) => y = x}
    \cup {r \in RecordsIn(Annos(pre)) :
            /\ r.key \notin KeysOf(AddedRecords(add_pre, to_public), TRUE)
                              \cup KeysOf(AddedRecords(add_pre, to_public), FALSE)
            /\ \A q \in RecordsIn(Annos(pre)) :
                 (q.key = r.key /\ q.isPrivate = r.isPrivate) => q = r}

\* C7: after a successful update a kind is present in status.annotations
\* exactly when a merged annotation has a value of that kind: every list
\* present is non-empty and holds values of its kind only.
C7_KindsPresentIffMember ==
    Updated =>
        /\ \A k \in KindsIn(Annos(status)) :
             /\ Annos(status)[k] # <<>>
             /\ \A i \in DOMAIN Annos(status)[k] : KindOf(Annos(status)[k][i].value) = k
        /\ \A r \in SurelyMerged : KindOf(r.value) \in KindsIn(Annos(status))

\* The status held a kind with an empty list, and the update returns fewer
\* than the three kinds, but some.
C7_Witness ==
    /\ Updated
    /\ \E k \in KindsIn(Annos(pre)) : Annos(pre)[k] = <<>>
    /\ KindsIn(Annos(status)) # {}
    /\ KindsIn(Annos(status)) # AnnotationKinds

\* A well-formed wire-format mapping: every record lies in the list of its
\* value's kind, and no two records of one visibility domain share a key.
WellFormed(T) ==
    /\ \A k \in KindsIn(T) : \A i \in DOMAIN T[k] : KindOf(T[k][i].value) = k
    /\ \A k, l \in KindsIn(T) : \A i \in DOMAIN T[k], j \in DOMAIN T[l] :
          (T[k][i].key = T[l][j].key /\ T[k][i].isPrivate = T[l][j].isPrivate)
             => (k = l /\ i = j)

\* The same records in kind k, up to list order.
SameRecords(T, R, k) ==
    /\ Len(T[k]) = Len(R[k])
    /\ Range(T[k]) = Range(R[k])

\* An update that adds nothing to a well-formed mapping of the three kinds.
RoundTripped ==
    /\ Updated
    /\ AddedRecords(add_pre, to_public) = {}
    /\ "annotations" \in DOMAIN pre
    /\ DOMAIN pre.annotations \subseteq AnnotationKinds
    /\ WellFormed(pre.annotations)

\* C8 as stated: the round trip reproduces T, the same kinds and in each
\* kind the same records up to list order.
C8_RoundTripSameKinds ==
    RoundTripped =>
        /\ DOMAIN status.annotations = DOMAIN pre.annotations
        /\ \A k \in DOMAIN pre.annotations :
             SameRecords(pre.annotations, status.annotations, k)

\* C8, amended: the round trip reproduces the kinds of T that hold at
\* least one record, each with the same records up to list order; a kind
\* whose list is empty in T is absent from the result.
C8_RoundTripNonEmptyKinds ==
    RoundTripped =>
        /\ DOMAIN status.annotations
             = {k \in DOMAIN pre.annotations : pre.annotations[k] # <<>>}
        /\ \A k \in DOMAIN status.annotations :
             SameRecords(pre.annotations, status.annotations, k)

\* T holds a private and a public record in two kinds, and an empty kind.
C8_Witness ==
    /\ RoundTripped
    /\ KeysOf(RecordsIn(pre.annotations), TRUE) # {}
    /\ KeysOf(RecordsIn(pre.annotations), FALSE) # {}
    /\ Cardinality({k \in DOMAIN pre.annotations : pre.annotations[k] # <<>>}) = 2
    /\ \E k \in DOMAIN pre.annotations : pre.annotations[k] = <<>>

C10_AclSetsEveryListedKey ==
    (op = "acl" /\ raised = "none") =>
        /\ DOMAIN status.annotations = DOMAIN pre.annotations
        /\ \A k \in KindsIn(pre.annotations) :
             /\ Len(status.annotations[k]) = Len(pre.annotations[k])
             /\ \A i \in DOMAIN pre.annotations[k] :
                  /\ status.annotations[k][i].key = pre.annotations[k][i].key
                  /\ status.annotations[k][i].value = pre.annotations[k][i].value
                  /\ status.annotations[k][i].isPrivate
                       = (IF pre.annotations[k][i].key \in Range(keys)
                          THEN is_private
                          ELSE pre.annotations[k][i].isPrivate)

\* The instant of a createdOn string lies within the given bounds.
InRange(date_str, start_datetime, end_datetime) ==
    /\ start_datetime.given =>
          date_str.minute * 60 + date_str.second >= start_datetime.minute * 60
    /\ end_datetime.given =>
          date_str.minute * 60 + date_str.second <= end_datetime.minute * 60

\* C11: _check_date_range returns True exactly when the date is at or after
\* the start (when given) and at or before the end (when given), and
\* _get_contributors collects the contributors of exactly the submissions
\* created within the range.
C11_DateWithinRange ==
    /\ dates.op = "check" =>
          (dates.result <=> InRange(dates.date, dates.start, dates.end))
    /\ dates.op = "contributors" =>
          dates.contributors
            = UNION {dates.bundles[i].contributors :
                        i \in {j \in DOMAIN dates.bundles :
                                  InRange(dates.bundles[j].createdOn,
                                          dates.start, dates.end)}}

\* What the generator has yielded and asked for is right so far.
QueryInOrder ==
    /\ query.yielded = [i \in 1..Len(query.yielded) |-> query.start + i - 1]
    /\ \A i \in DOMAIN query.yielded : query.yielded[i] < query.n
    /\ \A j \in DOMAIN query.requests :
          /\ query.requests[j].offset = query.start + query.requests[j].yielded
          /\ j < Len(query.requests) => query.requests[j].rows > 0
    /\ query.pc = "done" =>
          /\ query.page = <<>>
          /\ query.yielded
               = [i \in 1..(IF query.n > query.start THEN query.n - query.start ELSE 0)
                    |-> query.start + i - 1]
          /\ query.requests # <<>>
          /\ query.requests[Len(query.requests)].rows = 0

\* C12: a fully consumed evaluation_queue_query yields the records at
\* positions offset..N-1 once each and in order, asks each page at the
\* original offset plus the number of records yielded so far, and ends
\* after the first page that returns no row.
C12_QueryYieldsAllOnce == [](QueryInOrder) /\ <>(query.pc = "done")

\* Ended after several pages, started past the first record.
C12_Witness ==
    /\ query.pc = "done"
    /\ query.start > 0
    /\ Len(query.yielded) >= 2
    /\ Len(query.requests) >= 3
    /\ query.limit < Len(query.yielded)

====
